---- MODULE Spec2Model ----
(***************************************************************************)
(* Glitter: the per-frame scene pipeline of src/src/main.cpp.              *)
(*                                                                         *)
(* LinearAllocator (the UBO-backing byte buffer), the key callback, Tick   *)
(* and the phases of GlitterApplication::Render.                           *)
(*                                                                         *)
(* Floats are fixed-point integers: the integer One stands for 1.0f, so    *)
(* 0.25f is One \div 4.  The sample sets below hold values for which every *)
(* product used is exact.                                                  *)
(***************************************************************************)
EXTENDS Integers, Sequences, FiniteSets, TLC

VARIABLES
    pc,                     \* position of the main thread in Run / Tick / Render
    deviceAlignment,        \* GL_UNIFORM_BUFFER_OFFSET_ALIGNMENT of the device
    maxNodes,               \* Glitter::Config::MAX_NODES of the build
    lastKey,                \* history: the last event of the spawn-only specification
    runLog,                 \* history: the results Run got and its calls of Finish
    positionAccessor,       \* Prepare local: the positions positionAccessor reads, in order
    vertexIdx,              \* Prepare local: vertexIdx, over all primitives of the mesh
    gltfMesh,               \* Prepare local: gltfMesh
    vpMatrix,               \* Render local: vp
    extracted,              \* history: the planes of every extraction from vpMatrix
    m_buffer,               \* LinearAllocator::m_buffer
    m_initializedAlignment, \* LinearAllocator::m_initializedAlignment
    m_alignment,            \* LinearAllocator::m_alignment
    alignmentQueries,       \* history: number of glGetIntegerv calls made
    lastCall,               \* history: the last LinearAllocator call and its result
    shouldClose,            \* glfwWindowShouldClose(m_window)
    m_nodes,                \* GlitterApplication::m_nodes
    m_meshes,               \* GlitterApplication::m_meshes
    m_frustumCulling,       \* GlitterApplication::m_frustumCulling
    eyePos,                 \* Render local: eyePos
    frustumPlanes,          \* Render local: frustumPlanes
    packIdx,                \* Render local: position of the packing loop
    numCulledNodes,         \* Render local: numCulledNodes
    lastCull,               \* history: the last cull test (node, corners, result)
    cullTested,             \* history: the nodes whose culled flag this frame's cull test wrote
    opaqueNodes,            \* Render local: opaqueNodes
    transparentNodes,       \* Render local: transparentNodes
    preSort,                \* history: the two buckets as the partition left them
    drawIdx,                \* Render local: position of renderNodes in its bucket
    frameLog                \* history: allocator, upload and draw calls of this frame

vars == <<pc, deviceAlignment, maxNodes, lastKey, runLog, positionAccessor, vertexIdx, gltfMesh,
          vpMatrix, extracted, m_buffer, m_initializedAlignment, m_alignment,
          alignmentQueries, lastCall, shouldClose, m_nodes, m_meshes,
          m_frustumCulling, eyePos, frustumPlanes, packIdx,
          numCulledNodes, lastCull, cullTested, opaqueNodes, transparentNodes, preSort,
          drawIdx, frameLog>>

\* The locals of the mesh loading loop of Prepare.
loadLocals == <<positionAccessor, vertexIdx, gltfMesh>>

\* The matrix the planes are taken from and the planes taken.
extraction == <<vpMatrix, extracted>>

\* What no step of the application changes.
configuration == <<deviceAlignment, maxNodes, lastKey, loadLocals, extraction>>

\* What no step of a frame changes.
environment == <<configuration, runLog>>

allocVars == <<m_buffer, m_initializedAlignment, m_alignment, alignmentQueries, lastCall>>

appVars == <<shouldClose, m_nodes, m_meshes, m_frustumCulling, eyePos,
             frustumPlanes, packIdx, numCulledNodes, lastCull, cullTested, opaqueNodes,
             transparentNodes, preSort, drawIdx, frameLog>>

----------------------------------------------------------------------------
(* Bounds of the model. *)

\* Largest device alignment the allocator-only specification draws.
MaxAlignment == 4

\* Largest sizeof(T) the allocator-only specification pushes.
MaxRecordSize == 3

\* The allocator-only specification pushes while the buffer is shorter than this.
MaxBufferLen == 8

\* Space is pressed only while the scene holds fewer nodes than this.
NodeBound == 2

----------------------------------------------------------------------------
(* Values. *)

\* 1.0f in fixed point.
One == 8

\* Byte values the allocator-only specification stores.
ByteSamples == {0, 1}

\* Object representations of the records the allocator-only specification pushes.
RecordSamples == UNION {[1..n -> ByteSamples] : n \in 1..MaxRecordSize}

\* Values of GL_UNIFORM_BUFFER_OFFSET_ALIGNMENT the application runs on.
DeviceAlignments == {16, 64}

----------------------------------------------------------------------------
(* LinearAllocator. *)

Size(buffer) == Len(buffer)

Zeros(n) == [i \in 1..n |-> 0]

\* Mutant: an aligned length is padded by a whole alignment.
PaddingAlways(sizeAfterT, alignment) == alignment - (sizeAfterT % alignment)

\* Mutant: the padding is left out.
PaddingNone(sizeAfterT, alignment) == 0

\* paddingRequired of Push.
PaddingRequired(sizeAfterT, alignment) ==
    IF sizeAfterT % alignment = 0 THEN 0 ELSE alignment - (sizeAfterT % alignment)

\* Mutant: Push returns the start of the buffer.
PushReturnBufferStart(buffer, t) == 0

\* Mutant: what the comment above Push says, the offset after the object.
PushReturnOffsetAfter(buffer, t) == Size(buffer) + Len(t)

\* The value Push returns: offsetBeforePush.
PushReturn(buffer, t) == Size(buffer)

\* m_buffer after Push(t): resize, memcpy of the object, memset of the padding.
PushBuffer(buffer, alignment, t) ==
    LET sizeAfterT       == Size(buffer) + Len(t)
        paddingRequired  == PaddingRequired(sizeAfterT, alignment)
    IN  buffer \o t \o Zeros(paddingRequired)

\* Mutant: Clear leaves the buffer as it is.
ClearKeeps(buffer) == buffer

\* m_buffer after Clear().
ClearBuffer(buffer) == << >>

\* The alignment Push and GetAlignment use after InitializeAlignment().
AlignmentNow == IF m_initializedAlignment THEN m_alignment ELSE deviceAlignment

\* Mutant: the device is queried by every call.
InitializeAlignmentAlways ==
    /\ m_alignment' = deviceAlignment
    /\ m_initializedAlignment' = TRUE
    /\ alignmentQueries' = alignmentQueries + 1

\* InitializeAlignment(): queries the device on the first call only.
InitializeAlignment ==
    /\ m_alignment' = AlignmentNow
    /\ m_initializedAlignment' = TRUE
    /\ alignmentQueries' = IF m_initializedAlignment THEN alignmentQueries
                                                     ELSE alignmentQueries + 1

\* LinearAllocator::Push(t), t being the object representation of the record.
Push(t) ==
    /\ InitializeAlignment
    /\ m_buffer' = PushBuffer(m_buffer, AlignmentNow, t)
    /\ lastCall' = [op |-> "Push", ret |-> PushReturn(m_buffer, t), arg |-> t,
                    sizeBefore |-> Size(m_buffer)]

\* LinearAllocator::Clear().
Clear ==
    /\ m_buffer' = ClearBuffer(m_buffer)
    /\ lastCall' = [op |-> "Clear", ret |-> 0, arg |-> << >>, sizeBefore |-> Size(m_buffer)]
    /\ UNCHANGED <<m_initializedAlignment, m_alignment, alignmentQueries>>

\* LinearAllocator::GetAlignment().
GetAlignment ==
    /\ InitializeAlignment
    /\ lastCall' = [op |-> "GetAlignment", ret |-> AlignmentNow, arg |-> << >>,
                    sizeBefore |-> Size(m_buffer)]
    /\ UNCHANGED m_buffer

NoCall == [op |-> "none", ret |-> 0, arg |-> << >>, sizeBefore |-> 0]

\* Run before its first call.
NoRun == [initialize |-> "none", prepare |-> "none", finishCalls |-> 0]

\* No key event yet.
NoKey == [key |-> "none", action |-> "none", sizeBefore |-> 0]

\* A default-constructed LinearAllocator.
AllocatorInit ==
    /\ m_buffer = << >>
    /\ m_initializedAlignment = FALSE
    /\ m_alignment = 0
    /\ alignmentQueries = 0
    /\ lastCall = NoCall

----------------------------------------------------------------------------
(* Fixed-point arithmetic and the glm operations the application calls.    *)
(* A vec3 is <<x, y, z>>, a vec4 <<x, y, z, w>>, a mat4 the tuple of its    *)
(* four columns, so that the C++ m[c][r] is At(m, c, r).                    *)

FMul(a, b) == (a * b) \div One

Abs(x) == IF x < 0 THEN -x ELSE x

\* std::clamp(v, lo, hi)
Clamp(v, lo, hi) == IF v < lo THEN lo ELSE IF hi < v THEN hi ELSE v

At(m, c, r) == m[c + 1][r + 1]

\* glm::mat4(1.0f)
Identity == << <<One, 0, 0, 0>>, <<0, One, 0, 0>>, <<0, 0, One, 0>>, <<0, 0, 0, One>> >>

ColScale(col, k) == [r \in 1..4 |-> FMul(col[r], k)]

ColAdd(a, b) == [r \in 1..4 |-> a[r] + b[r]]

\* glm::scale(m, v): the first three columns of m times v.x, v.y, v.z.
GlmScale(m, v) == << ColScale(m[1], v[1]), ColScale(m[2], v[2]), ColScale(m[3], v[3]), m[4] >>

\* glm::translate(m, v): the last column becomes m[0]*v.x + m[1]*v.y + m[2]*v.z + m[3].
GlmTranslate(m, v) ==
    << m[1], m[2], m[3],
       ColAdd(ColAdd(ColScale(m[1], v[1]), ColScale(m[2], v[2])),
              ColAdd(ColScale(m[3], v[3]), m[4])) >>

\* m * v for a mat4 m and a vec4 v.
MatVec(m, v) ==
    ColAdd(ColAdd(ColScale(m[1], v[1]), ColScale(m[2], v[2])),
           ColAdd(ColScale(m[3], v[3]), ColScale(m[4], v[4])))

\* glm::vec3(m * glm::vec4(p, 1.0f))
TransformPoint(m, p) == LET q == MatVec(m, <<p[1], p[2], p[3], One>>) IN <<q[1], q[2], q[3]>>

RECURSIVE SqrtSearch(_, _, _)
SqrtSearch(x, lo, hi) ==
    IF lo >= hi THEN lo
    ELSE LET mid == (lo + hi + 1) \div 2
         IN  IF mid * mid <= x THEN SqrtSearch(x, mid, hi) ELSE SqrtSearch(x, lo, mid - 1)

RECURSIVE SqrtUpper(_, _)
SqrtUpper(x, h) == IF h * h > x THEN h ELSE SqrtUpper(x, 2 * h)

\* sqrt, rounded down to the fixed-point grid.
Sqrt(x) == SqrtSearch(x, 0, SqrtUpper(x, 1))

\* glm::distance(a, b)
Distance(a, b) ==
    Sqrt((a[1] - b[1]) * (a[1] - b[1]) + (a[2] - b[2]) * (a[2] - b[2])
         + (a[3] - b[3]) * (a[3] - b[3]))

----------------------------------------------------------------------------
(* Program constants and sampled inputs of the application.                *)

\* Glitter::Config::MAX_NODES, the configured maximum node count.  glitter/Config.h
\* is produced at configure time; 20 is the least value for which a press of
\* Space spawns a node.
MAX_NODES == 20

\* sizeof(CommonData): two mat4 and three vec4.
SizeofCommonData == 176

\* sizeof(PerDrawData): one mat4 and one float.
SizeofPerDrawData == 68

\* glm::sphericalRand(45.0f): points at distance 45 from the origin.
PositionSamples == { <<45 * One, 0, 0>>, <<-45 * One, 0, 0>>, <<0, 0, 45 * One>> }

\* glm::vec3(0.25f), the scale every spawned node gets.
SpawnScale == <<One \div 4, One \div 4, One \div 4>>

\* Values of std::sin(glfwGetTime()).
SinSamples == {0}

\* Values of std::cosf(glfwGetTime()).
CosSamples == {-One, 0, One \div 2}

\* Vertex positions cgltf reads from meshes/teapot.glb.
VertexSamples == { << <<-One, -One, -One>>, <<One, One, One>> >> }

\* projection * view that maps the world box |x|,|y|,|z| < h onto the clip volume.
BoxVP(h) == << <<One, 0, 0, 0>>, <<0, One, 0, 0>>, <<0, 0, One, 0>>, <<0, 0, 0, h * One>> >>

\* projection * view of a camera at the origin looking along +x, with the near
\* plane at x = 11.25: clip = (z, y, x - 22.5 w, x).
AlongXVP ==
    << <<0, 0, One, One>>, <<0, One, 0, 0>>, <<One, 0, 0, 0>>, <<0, 0, (0 - 45 * One) \div 2, 0>> >>

\* Values of projection * view (glm::perspective and glm::lookAt are library code).
VPSamples == { BoxVP(11), AlongXVP }

----------------------------------------------------------------------------
(* Meshes and nodes. *)

Min(a, b) == IF b < a THEN b ELSE a

Max(a, b) == IF a < b THEN b ELSE a

\* One step of the running min/max of Prepare.
AabbAdd(aabb, vertex) ==
    [m_localMin |-> [k \in 1..3 |-> Min(aabb.m_localMin[k], vertex[k])],
     m_localMax |-> [k \in 1..3 |-> Max(aabb.m_localMax[k], vertex[k])]]

RECURSIVE AabbFold(_, _)
AabbFold(aabb, vertices) ==
    IF vertices = << >> THEN aabb
    ELSE AabbFold(AabbAdd(aabb, Head(vertices)), Tail(vertices))

\* GltfMesh gltfMesh {}: the AABB starts zero-initialised.
AabbZero == [m_localMin |-> <<0, 0, 0>>, m_localMax |-> <<0, 0, 0>>]

\* The locals of the loading loop outside a load.
LoadLocalsIdle ==
    /\ positionAccessor = << >>
    /\ vertexIdx = 0
    /\ gltfMesh = [m_aabb |-> AabbZero]

\* The Mesh Prepare builds: the primitives of parsedMeshes[0] and its AABB.
LoadedMesh(vertices) == [m_primitives |-> 1, m_aabb |-> AabbFold(AabbZero, vertices)]

\* The Node the Space key spawns.
SpawnNode(position, meshID) ==
    [m_position |-> position, m_scale |-> SpawnScale, m_meshID |-> meshID,
     m_uboOffset |-> 0, m_opacity |-> One, m_shouldAnimate |-> TRUE, m_culled |-> FALSE]

\* std::clamp(std::abs(1.25f * cosf(t)), 0.0f, 1.0f)
AnimatedOpacity(cosT) == Clamp(Abs(FMul(One + One \div 4, cosT)), 0, One)

----------------------------------------------------------------------------
(* Frustum extraction and the cull test. *)

\* Mutant: the matrix read as vp[row][column].
ExtractFrustumTransposed(vp) ==
    << [a |-> At(vp,3,0) + At(vp,0,0), b |-> At(vp,3,1) + At(vp,0,1),
        c |-> At(vp,3,2) + At(vp,0,2), d |-> At(vp,3,3) + At(vp,0,3)],
       [a |-> At(vp,3,0) - At(vp,0,0), b |-> At(vp,3,1) - At(vp,0,1),
        c |-> At(vp,3,2) - At(vp,0,2), d |-> At(vp,3,3) - At(vp,0,3)],
       [a |-> At(vp,3,0) + At(vp,1,0), b |-> At(vp,3,1) + At(vp,1,1),
        c |-> At(vp,3,2) + At(vp,1,2), d |-> At(vp,3,3) + At(vp,1,3)],
       [a |-> At(vp,3,0) - At(vp,1,0), b |-> At(vp,3,1) - At(vp,1,1),
        c |-> At(vp,3,2) - At(vp,1,2), d |-> At(vp,3,3) - At(vp,1,3)],
       [a |-> At(vp,3,0) + At(vp,2,0), b |-> At(vp,3,1) + At(vp,2,1),
        c |-> At(vp,3,2) + At(vp,2,2), d |-> At(vp,3,3) + At(vp,2,3)],
       [a |-> At(vp,3,0) - At(vp,2,0), b |-> At(vp,3,1) - At(vp,2,1),
        c |-> At(vp,3,2) - At(vp,2,2), d |-> At(vp,3,3) - At(vp,2,3)] >>

\* The planes left, right, bottom, top, near, far as Render fills frustumPlanes;
\* vp[c][r] of glm is column c, row r.
ExtractFrustum(vp) ==
    << [a |-> At(vp,0,3) + At(vp,0,0), b |-> At(vp,1,3) + At(vp,1,0),
        c |-> At(vp,2,3) + At(vp,2,0), d |-> At(vp,3,3) + At(vp,3,0)],   \* left
       [a |-> At(vp,0,3) - At(vp,0,0), b |-> At(vp,1,3) - At(vp,1,0),
        c |-> At(vp,2,3) - At(vp,2,0), d |-> At(vp,3,3) - At(vp,3,0)],   \* right
       [a |-> At(vp,0,3) + At(vp,0,1), b |-> At(vp,1,3) + At(vp,1,1),
        c |-> At(vp,2,3) + At(vp,2,1), d |-> At(vp,3,3) + At(vp,3,1)],   \* bottom
       [a |-> At(vp,0,3) - At(vp,0,1), b |-> At(vp,1,3) - At(vp,1,1),
        c |-> At(vp,2,3) - At(vp,2,1), d |-> At(vp,3,3) - At(vp,3,1)],   \* top
       [a |-> At(vp,0,3) + At(vp,0,2), b |-> At(vp,1,3) + At(vp,1,2),
        c |-> At(vp,2,3) + At(vp,2,2), d |-> At(vp,3,3) + At(vp,3,2)],   \* near
       [a |-> At(vp,0,3) - At(vp,0,2), b |-> At(vp,1,3) - At(vp,1,2),
        c |-> At(vp,2,3) - At(vp,2,2), d |-> At(vp,3,3) - At(vp,3,2)] >> \* far

NoPlanes == << >>

\* vp and the planes outside an extraction.
ExtractionIdle ==
    /\ vpMatrix = << >>
    /\ extracted = << >>

\* Mutant: a point on the plane counts as inside.
IsInsideOrOnHalfspace(position, plane) ==
    FMul(plane.a, position[1]) + FMul(plane.b, position[2])
        + FMul(plane.c, position[3]) + plane.d >= 0

\* The lambda isInsideHalfspace.
IsInsideHalfspace(position, plane) ==
    FMul(plane.a, position[1]) + FMul(plane.b, position[2])
        + FMul(plane.c, position[3]) + plane.d > 0

\* The transform Render builds for the AABB and again for the model matrix:
\* glm::scale on the identity, then glm::translate on the result.
ScaleTranslate(scale, position) == GlmTranslate(GlmScale(Identity, scale), position)

\* aabbCorners before the transform, in the order of the source.
AabbCorners(aabb) ==
    LET lo == aabb.m_localMin
        hi == aabb.m_localMax
    IN  << lo,
           <<hi[1], lo[2], lo[3]>>,
           <<lo[1], hi[2], lo[3]>>,
           <<lo[1], lo[2], hi[3]>>,
           <<hi[1], lo[2], hi[3]>>,
           <<hi[1], hi[2], lo[3]>>,
           <<lo[1], hi[2], hi[3]>>,
           hi >>

\* aabbCorners after the transform.
WorldCorners(node, aabb) ==
    [i \in 1..8 |-> TransformPoint(ScaleTranslate(node.m_scale, node.m_position),
                                   AabbCorners(aabb)[i])]

\* cullNode: no corner is inside all six planes.
CullNode(corners, planes) ==
    ~ \E i \in 1..8 : \A p \in 1..6 : IsInsideHalfspace(corners[i], planes[p])

NoCull == [node |-> 0, corners |-> << >>, cullNode |-> FALSE]

----------------------------------------------------------------------------
(* History records of one frame. *)

LogEntry(op, kind, node, offset, size, item) ==
    [op |-> op, kind |-> kind, node |-> node, offset |-> offset, size |-> size, item |-> item]

NoBuckets == [opaque |-> << >>, transparent |-> << >>]

\* Object representation of a record: size bytes, each carrying the record's tag
\* (1 for CommonData, 1 + i for the PerDrawData of m_nodes[i]).
ObjectBytes(tag, size) == [i \in 1..size |-> tag]

\* The locals of Render outside a frame.
FrameLocalsIdle ==
    /\ eyePos = <<0, 0, 0>>
    /\ frustumPlanes = NoPlanes
    /\ packIdx = 0
    /\ numCulledNodes = 0
    /\ lastCull = NoCull
    /\ cullTested = {}
    /\ opaqueNodes = << >>
    /\ transparentNodes = << >>
    /\ preSort = NoBuckets
    /\ drawIdx = 0
    /\ frameLog = << >>

frameLocals == <<eyePos, frustumPlanes, packIdx, numCulledNodes, lastCull, cullTested,
                 opaqueNodes, transparentNodes, preSort, drawIdx, frameLog>>

----------------------------------------------------------------------------
(* Run, Initialize, Prepare, Finish. *)

InitializeResults == {"Ok", "GlfwInitError", "GlfwWindowError", "GladLoadError"}

PrepareResults == {"Ok", "ShaderCompileError", "ProgramLinkError", "FramebufferIncomplete"}

Init ==
    /\ pc = "Initialize"
    /\ deviceAlignment \in DeviceAlignments
    /\ maxNodes = MAX_NODES
    /\ lastKey = NoKey
    /\ runLog = NoRun
    /\ LoadLocalsIdle
    /\ ExtractionIdle
    /\ AllocatorInit
    /\ shouldClose = FALSE
    /\ m_nodes = << >>
    /\ m_meshes = << >>
    /\ m_frustumCulling = TRUE
    /\ FrameLocalsIdle

\* Mutant: Run goes on to Prepare whatever Initialize returned.
AfterInitializeUntested(result) == "Prepare"

\* if (Initialize() != InitializeResult::Ok) { Finish(); return; }
AfterInitialize(result) == IF result = "Ok" THEN "Prepare" ELSE "Finish"

\* if (Prepare() != PrepareResult::Ok) { Finish(); return; }
AfterPrepare(result) == IF result = "Ok" THEN "Loop" ELSE "Finish"

\* Run: Initialize() and the test of its result.
Initialize ==
    /\ pc = "Initialize"
    /\ \E result \in InitializeResults :
          /\ pc' = AfterInitialize(result)
          /\ runLog' = [runLog EXCEPT !.initialize = result]
    /\ UNCHANGED <<configuration, allocVars, appVars>>

\* Run: Prepare() and the test of its result.  The shader and program errors
\* return before the mesh is loaded and the UBO is sized; FramebufferIncomplete
\* returns after both.
Prepare ==
    /\ pc = "Prepare"
    /\ \E result \in PrepareResults, loaded \in BOOLEAN, vertices \in VertexSamples :
          /\ pc' = AfterPrepare(result)
          /\ runLog' = [runLog EXCEPT !.prepare = result]
          /\ IF result \in {"ShaderCompileError", "ProgramLinkError"}
             THEN UNCHANGED <<m_meshes, allocVars>>
             ELSE /\ m_meshes' = IF loaded THEN <<LoadedMesh(vertices)>> ELSE << >>
                  /\ GetAlignment
    /\ UNCHANGED <<configuration, shouldClose, m_nodes, m_frustumCulling, frameLocals>>

\* Run: the test of glfwWindowShouldClose at the top of the loop.
LoopTest ==
    /\ pc = "Loop"
    /\ pc' = IF shouldClose THEN "Finish" ELSE "Tick"
    /\ UNCHANGED <<environment, allocVars, appVars>>

\* Run: Finish().
Finish ==
    /\ pc = "Finish"
    /\ runLog' = [runLog EXCEPT !.finishCalls = @ + 1]
    /\ pc' = "Done"
    /\ UNCHANGED <<configuration, allocVars, appVars>>

----------------------------------------------------------------------------
(* The key callback, called by glfwPollEvents in Tick. *)

KeyActions == {"GLFW_PRESS", "GLFW_RELEASE", "GLFW_REPEAT"}

\* Mutant: nodesPerPress without the two tests on m_nodes.size().
NodesPerPressUntested(size) == maxNodes \div 20

\* nodesPerPress after the two tests on m_nodes.size().
NodesPerPress(size) ==
    IF size >= maxNodes THEN 0
    ELSE IF size + maxNodes \div 20 > maxNodes THEN maxNodes - size
    ELSE maxNodes \div 20

\* glfwPollEvents delivers any number of key events before Tick goes on.
Polling == pc = "Tick"

\* case GLFW_KEY_SPACE.  With no mesh loaded, rand() % m_meshes.size() divides by
\* zero: the process is killed (x86) or the node gets a mesh id.
KeySpace ==
    /\ Polling
    /\ \E action \in KeyActions :
          IF action = "GLFW_RELEASE" /\ NodesPerPress(Len(m_nodes)) > 0
          THEN /\ Len(m_nodes) < NodeBound
               /\ \E positions \in [1..NodesPerPress(Len(m_nodes)) -> PositionSamples] :
                     IF m_meshes # << >>
                     THEN /\ \E ids \in [1..NodesPerPress(Len(m_nodes)) -> 0..(Len(m_meshes) - 1)] :
                               m_nodes' = m_nodes \o
                                   [i \in 1..NodesPerPress(Len(m_nodes)) |->
                                       SpawnNode(positions[i], ids[i])]
                          /\ pc' = pc
                     ELSE \/ /\ m_nodes' = m_nodes \o
                                   [i \in 1..NodesPerPress(Len(m_nodes)) |->
                                       SpawnNode(positions[i], 0)]
                             /\ pc' = pc
                          \/ /\ m_nodes' = m_nodes
                             /\ pc' = "Crashed"
          ELSE UNCHANGED <<pc, m_nodes>>
    /\ UNCHANGED <<environment, allocVars, shouldClose, m_meshes, m_frustumCulling,
                   frameLocals>>

\* case GLFW_KEY_K
KeyK ==
    /\ Polling
    /\ \E action \in KeyActions :
          m_frustumCulling' = IF action = "GLFW_RELEASE" THEN ~m_frustumCulling
                                                         ELSE m_frustumCulling
    /\ UNCHANGED <<pc, environment, allocVars, shouldClose, m_nodes, m_meshes, frameLocals>>

\* case GLFW_KEY_ESCAPE
KeyEscape ==
    /\ Polling
    /\ shouldClose' = TRUE
    /\ UNCHANGED <<pc, environment, allocVars, m_nodes, m_meshes, m_frustumCulling,
                   frameLocals>>

\* default
KeyDefault ==
    /\ Polling
    /\ UNCHANGED <<pc, environment, allocVars, shouldClose, m_nodes, m_meshes,
                   m_frustumCulling, frameLocals>>

\* The opacity Tick gives a node.
TickOpacity(node, cosT) == IF node.m_shouldAnimate THEN AnimatedOpacity(cosT) ELSE node.m_opacity

\* Tick after glfwPollEvents: the animation loop.  glfwGetTime() is read once per
\* node, so each node gets its own sample.
Tick ==
    /\ pc = "Tick"
    /\ \E cosT \in [1..Len(m_nodes) -> CosSamples] :
          m_nodes' = [i \in 1..Len(m_nodes) |->
                         [m_nodes[i] EXCEPT !.m_opacity = TickOpacity(m_nodes[i], cosT[i])]]
    /\ pc' = "RenderClear"
    /\ UNCHANGED <<environment, allocVars, shouldClose, m_meshes, m_frustumCulling,
                   frameLocals>>

----------------------------------------------------------------------------
(* Render: clear, camera, shared record, packing loop, debug UI, upload.   *)

\* m_uboAllocator.Clear() at the top of Render; the log keeps the size Clear found.
RenderClear ==
    /\ pc = "RenderClear"
    /\ Clear
    /\ frameLog' = << LogEntry("Clear", "", 0, 0, Size(m_buffer), << >>) >>
    /\ pc' = "RenderCamera"
    /\ UNCHANGED <<environment, shouldClose, m_nodes, m_meshes, m_frustumCulling,
                   eyePos, frustumPlanes, packIdx, numCulledNodes, lastCull, cullTested, opaqueNodes,
                   transparentNodes, preSort, drawIdx>>

\* eyePos, view, projection and the six planes taken from projection * view.
RenderCamera ==
    /\ pc = "RenderCamera"
    /\ \E sinT \in SinSamples, vp \in VPSamples :
          /\ eyePos' = <<sinT, (5 * One) \div 2, -((7 * One) \div 2)>>
          /\ frustumPlanes' = ExtractFrustum(vp)
    /\ frameLog' = frameLog \o << LogEntry("Camera", "", 0, 0, 0, << >>),
                                 LogEntry("Frustum", "", 0, 0, 0, << >>) >>
    /\ pc' = "RenderPushCommon"
    /\ UNCHANGED <<environment, allocVars, shouldClose, m_nodes, m_meshes,
                   m_frustumCulling, packIdx, numCulledNodes, lastCull, cullTested,
                   opaqueNodes, transparentNodes, preSort, drawIdx>>

\* m_uboAllocator.Push(commonData); the returned offset is dropped by the code
\* and kept here in the log.
RenderPushCommon ==
    /\ pc = "RenderPushCommon"
    /\ Push(ObjectBytes(1, SizeofCommonData))
    /\ frameLog' = Append(frameLog,
                      LogEntry("Push", "CommonData", 0, lastCall'.ret, SizeofCommonData, << >>))
    /\ packIdx' = 1
    /\ numCulledNodes' = 0
    /\ pc' = "Pack"
    /\ UNCHANGED <<environment, shouldClose, m_nodes, m_meshes, m_frustumCulling,
                   eyePos, frustumPlanes, lastCull, cullTested, opaqueNodes, transparentNodes, preSort,
                   drawIdx>>

\* Mutant: a node of opacity zero is handled like any other.
SkipsNodeNever(node) == FALSE

\* The test at the top of the packing loop body.
SkipsNode(node) == node.m_opacity = 0

\* AABB = m_meshes[node.m_meshID].m_aabb.  An index out of range is only met
\* with m_meshes empty: its data() is null, the read faults and yields nothing.
AabbReads(node) ==
    IF node.m_meshID < Len(m_meshes) THEN {m_meshes[node.m_meshID + 1].m_aabb} ELSE {}

\* Mutant: the offset Push returns is dropped and the node keeps the one it had.
UboOffsetKept(node, ret) == node.m_uboOffset

\* node.m_uboOffset = m_uboAllocator.Push(shaderData)
UboOffsetStored(node, ret) == ret

\* The part of the loop body after the cull test: model matrix, Push, m_uboOffset.
\* It runs whatever the cull test found.
PackPush(culled) ==
    LET node       == m_nodes[packIdx]
        model      == ScaleTranslate(node.m_scale, node.m_position)
        shaderData == [m_model |-> model, m_opacity |-> node.m_opacity]
    IN  /\ Push(ObjectBytes(1 + packIdx, SizeofPerDrawData))
        /\ m_nodes' = [m_nodes EXCEPT ![packIdx].m_culled = culled,
                                      ![packIdx].m_uboOffset =
                                          UboOffsetStored(node, lastCall'.ret)]
        /\ frameLog' = Append(frameLog,
                          LogEntry("Push", "PerDrawData", packIdx, lastCall'.ret,
                                   SizeofPerDrawData, shaderData))

\* One iteration of the packing loop.
PackNode ==
    /\ pc = "Pack"
    /\ packIdx <= Len(m_nodes)
    /\ LET node == m_nodes[packIdx]
       IN  IF SkipsNode(node)
           THEN /\ packIdx' = packIdx + 1
                /\ UNCHANGED <<pc, allocVars, m_nodes, numCulledNodes, lastCull, cullTested, frameLog>>
           ELSE IF m_frustumCulling
           THEN \/ \E aabb \in AabbReads(node) :
                      LET corners  == WorldCorners(node, aabb)
                          cullNode == CullNode(corners, frustumPlanes)
                      IN  /\ cullTested' = cullTested \cup {packIdx}
                          /\ lastCull' = [node |-> packIdx, corners |-> corners,
                                          cullNode |-> cullNode]
                          /\ numCulledNodes' = numCulledNodes + (IF cullNode THEN 1 ELSE 0)
                          /\ PackPush(cullNode)
                          /\ packIdx' = packIdx + 1
                          /\ pc' = pc
                \/ /\ node.m_meshID >= Len(m_meshes)
                   /\ pc' = "Crashed"
                   /\ UNCHANGED <<allocVars, m_nodes, packIdx, numCulledNodes, lastCull, cullTested,
                                  frameLog>>
           ELSE /\ PackPush(node.m_culled)
                /\ packIdx' = packIdx + 1
                /\ UNCHANGED <<pc, numCulledNodes, lastCull, cullTested>>
    /\ UNCHANGED <<environment, shouldClose, m_meshes, m_frustumCulling, eyePos,
                   frustumPlanes, opaqueNodes, transparentNodes, preSort, drawIdx>>

\* Mutant: the order of the claim, the upload after the two sorts.
RenderSequenceUploadLast ==
    [Pack |-> "Partition", Partition |-> "Sort", Sort |-> "Upload", Upload |-> "Draw"]

\* What follows what in Render after the packing loop: the debug window and the
\* upload, the partition, the two sorts, the draws.
RenderSequence ==
    [Pack |-> "Upload", Upload |-> "Partition", Partition |-> "Sort", Sort |-> "Draw"]

\* The debug window after the loop: the Frustum Culling checkbox and the
\* Clear Nodes button.
DebugUI ==
    /\ pc = "Pack"
    /\ packIdx > Len(m_nodes)
    /\ \E checkboxClicked \in BOOLEAN, clearPressed \in BOOLEAN :
          /\ m_frustumCulling' = IF checkboxClicked THEN ~m_frustumCulling ELSE m_frustumCulling
          /\ m_nodes' = IF clearPressed THEN << >> ELSE m_nodes
    /\ frameLog' = Append(frameLog, LogEntry("DebugUI", "", 0, 0, 0, << >>))
    /\ pc' = RenderSequence["Pack"]
    /\ UNCHANGED <<environment, allocVars, shouldClose, m_meshes, eyePos,
                   frustumPlanes, packIdx, numCulledNodes, lastCull, cullTested, opaqueNodes,
                   transparentNodes, preSort, drawIdx>>

\* Mutant: only the shared record is uploaded.
UploadLengthCommonOnly(buffer) == SizeofCommonData

\* The length given to glNamedBufferSubData: sizeof(uint8_t) * m_uboAllocator.Size().
UploadLength(buffer) == 1 * Size(buffer)

\* glNamedBufferSubData(m_mainUBO, 0, Size(), Data())
Upload ==
    /\ pc = "Upload"
    /\ frameLog' = Append(frameLog,
                      LogEntry("Upload", "", 0, 0, UploadLength(m_buffer), << >>))
    /\ pc' = RenderSequence["Upload"]
    /\ UNCHANGED <<environment, allocVars, shouldClose, m_nodes, m_meshes,
                   m_frustumCulling, eyePos, frustumPlanes, packIdx, numCulledNodes,
                   lastCull, cullTested, opaqueNodes, transparentNodes, preSort, drawIdx>>

----------------------------------------------------------------------------
(* Render: partition, sort, draws. *)

\* Mutant: a node of opacity 1.0 is not told apart from the others.
IsOpaqueNever(node) == FALSE

\* node.m_opacity == 1.0f
IsOpaque(node) == node.m_opacity = One

\* Mutant: a node whose culled flag is set is passed over whatever the switch says.
PartitionSkipsCulled(node, frustumCulling) == node.m_culled

\* The first test of the partition loop body.
PartitionSkips(node, frustumCulling) == frustumCulling /\ node.m_culled

RECURSIVE PartitionFrom(_, _, _, _)
\* The partition loop from node i on, given the buckets so far.
PartitionFrom(nodes, frustumCulling, i, buckets) ==
    IF i > Len(nodes) THEN buckets
    ELSE LET node == nodes[i]
             next == IF PartitionSkips(node, frustumCulling) THEN buckets
                     ELSE IF IsOpaque(node)
                          THEN [buckets EXCEPT !.opaque = Append(@, node)]
                     ELSE IF node.m_opacity # 0
                          THEN [buckets EXCEPT !.transparent = Append(@, node)]
                     ELSE buckets
         IN  PartitionFrom(nodes, frustumCulling, i + 1, next)

\* The loop that splits m_nodes into opaqueNodes and transparentNodes.
Partition ==
    /\ pc = "Partition"
    /\ LET buckets == PartitionFrom(m_nodes, m_frustumCulling, 1, NoBuckets)
       IN  /\ opaqueNodes' = buckets.opaque
           /\ transparentNodes' = buckets.transparent
           /\ preSort' = buckets
    /\ frameLog' = Append(frameLog, LogEntry("Partition", "", 0, 0, 0, << >>))
    /\ pc' = RenderSequence["Partition"]
    /\ UNCHANGED <<environment, allocVars, shouldClose, m_nodes, m_meshes,
                   m_frustumCulling, eyePos, frustumPlanes, packIdx, numCulledNodes,
                   lastCull, cullTested, drawIdx>>

\* Mutant: the opaque comparator with the comparison turned round.
OpaqueBeforeFlipped(eye, a, b) == Distance(eye, a.m_position) > Distance(eye, b.m_position)

\* The comparator of the opaque sort.
OpaqueBefore(eye, a, b) == Distance(eye, a.m_position) < Distance(eye, b.m_position)

\* The comparator of the transparent sort.
TransparentBefore(eye, a, b) == Distance(eye, a.m_position) > Distance(eye, b.m_position)

IndexPermutations(n) == {f \in [1..n -> 1..n] : \A i, j \in 1..n : f[i] = f[j] => i = j}

\* The rearrangements of a sequence.
Arrangements(s) == { [i \in 1..Len(s) |-> s[f[i]]] : f \in IndexPermutations(Len(s)) }

\* std::sort of the opaque bucket: every arrangement in which no element has to
\* come before an earlier one; the order of equivalent elements is unspecified.
OpaqueSortOutcomes(s, eye) ==
    { q \in Arrangements(s) : \A i, j \in 1..Len(s) : i < j => ~OpaqueBefore(eye, q[j], q[i]) }

\* std::sort of the transparent bucket, likewise.
TransparentSortOutcomes(s, eye) ==
    { q \in Arrangements(s) : \A i, j \in 1..Len(s) : i < j => ~TransparentBefore(eye, q[j], q[i]) }

\* The two std::sort calls.
Sort ==
    /\ pc = "Sort"
    /\ opaqueNodes' \in OpaqueSortOutcomes(opaqueNodes, eyePos)
    /\ transparentNodes' \in TransparentSortOutcomes(transparentNodes, eyePos)
    /\ frameLog' = Append(frameLog, LogEntry("Sort", "", 0, 0, 0, << >>))
    /\ drawIdx' = 1
    /\ pc' = RenderSequence["Sort"]
    /\ UNCHANGED <<environment, allocVars, shouldClose, m_nodes, m_meshes,
                   m_frustumCulling, eyePos, frustumPlanes, packIdx, numCulledNodes,
                   lastCull, cullTested, preSort>>

\* m_meshes[meshIdx].m_primitives.size()
PrimitiveCount(node) == m_meshes[node.m_meshID + 1].m_primitives

\* The offset of glBindBufferRange(GL_UNIFORM_BUFFER, 0, m_mainUBO, 0, sizeof(CommonData)).
CommonRangeOffset == 0

\* What renderNodes does for one primitive: the shared range bound at offset 0,
\* then the per-draw range bound at node.m_uboOffset and glDrawElements.
PrimitiveDraw(node, bucket) ==
    << LogEntry("BindCommon", bucket, 0, CommonRangeOffset, SizeofCommonData, << >>),
       LogEntry("Draw", bucket, 0, node.m_uboOffset, SizeofPerDrawData, node) >>

RECURSIVE Repeat(_, _)
\* s, n times over.
Repeat(s, n) == IF n = 0 THEN << >> ELSE s \o Repeat(s, n - 1)

\* The calls of renderNodes for one node: PrimitiveDraw for each primitive.
DrawsOf(node, bucket) == Repeat(PrimitiveDraw(node, bucket), PrimitiveCount(node))

\* One iteration of the loop of renderNodes.  With m_meshes empty the read of
\* m_meshes[meshIdx] faults.
RenderNode(node, bucket) ==
    \/ /\ node.m_meshID < Len(m_meshes)
       /\ frameLog' = frameLog \o DrawsOf(node, bucket)
       /\ drawIdx' = drawIdx + 1
       /\ pc' = pc
    \/ /\ node.m_meshID >= Len(m_meshes)
       /\ pc' = "Crashed"
       /\ UNCHANGED <<frameLog, drawIdx>>

\* Mutant: the transparent pass is issued first.
PassOrderSwapped == <<"transparent", "opaque">>

\* The order of the two renderNodes calls.
PassOrder == <<"opaque", "transparent">>

Bucket(name) == IF name = "opaque" THEN opaqueNodes ELSE transparentNodes

\* The pass that issues the i-th node draw of the frame.
PassAt(i) == IF i <= Len(Bucket(PassOrder[1])) THEN PassOrder[1] ELSE PassOrder[2]

\* The node of the i-th node draw of the frame.
NodeAt(i) ==
    IF i <= Len(Bucket(PassOrder[1])) THEN Bucket(PassOrder[1])[i]
    ELSE Bucket(PassOrder[2])[i - Len(Bucket(PassOrder[1]))]

\* One iteration of renderNodes(opaqueNodes).
DrawOpaque ==
    /\ pc = "Draw"
    /\ drawIdx <= Len(opaqueNodes) + Len(transparentNodes)
    /\ PassAt(drawIdx) = "opaque"
    /\ RenderNode(NodeAt(drawIdx), "opaque")
    /\ UNCHANGED <<environment, allocVars, shouldClose, m_nodes, m_meshes,
                   m_frustumCulling, eyePos, frustumPlanes, packIdx, numCulledNodes,
                   lastCull, cullTested, opaqueNodes, transparentNodes, preSort>>

\* One iteration of renderNodes(transparentNodes).
DrawTransparent ==
    /\ pc = "Draw"
    /\ drawIdx <= Len(opaqueNodes) + Len(transparentNodes)
    /\ PassAt(drawIdx) = "transparent"
    /\ RenderNode(NodeAt(drawIdx), "transparent")
    /\ UNCHANGED <<environment, allocVars, shouldClose, m_nodes, m_meshes,
                   m_frustumCulling, eyePos, frustumPlanes, packIdx, numCulledNodes,
                   lastCull, cullTested, opaqueNodes, transparentNodes, preSort>>

\* The end of Render: glfwSwapBuffers; the locals go out of scope.
SwapBuffers ==
    /\ pc = "Draw"
    /\ drawIdx > Len(opaqueNodes) + Len(transparentNodes)
    /\ pc' = "Loop"
    /\ eyePos' = <<0, 0, 0>>
    /\ frustumPlanes' = NoPlanes
    /\ packIdx' = 0
    /\ numCulledNodes' = 0
    /\ lastCull' = NoCull
    /\ cullTested' = {}
    /\ opaqueNodes' = << >>
    /\ transparentNodes' = << >>
    /\ preSort' = NoBuckets
    /\ drawIdx' = 0
    /\ frameLog' = << >>
    /\ UNCHANGED <<environment, allocVars, shouldClose, m_nodes, m_meshes,
                   m_frustumCulling>>

----------------------------------------------------------------------------
(* The application. *)

Next ==
    \/ Initialize
    \/ Prepare
    \/ LoopTest
    \/ KeySpace
    \/ KeyK
    \/ KeyEscape
    \/ KeyDefault
    \/ Tick
    \/ RenderClear
    \/ RenderCamera
    \/ RenderPushCommon
    \/ PackNode
    \/ DebugUI
    \/ Upload
    \/ Partition
    \/ Sort
    \/ DrawOpaque
    \/ DrawTransparent
    \/ SwapBuffers
    \/ Finish

Spec == Init /\ [][Next]_vars

----------------------------------------------------------------------------
(* The allocator alone: any device alignment, any record, any order of calls. *)

AllocInit ==
    /\ pc = "Allocator"
    /\ deviceAlignment \in 1..MaxAlignment
    /\ maxNodes = MAX_NODES
    /\ lastKey = NoKey
    /\ runLog = NoRun
    /\ LoadLocalsIdle
    /\ ExtractionIdle
    /\ AllocatorInit
    /\ shouldClose = FALSE
    /\ m_nodes = << >>
    /\ m_meshes = << >>
    /\ m_frustumCulling = TRUE
    /\ FrameLocalsIdle

AllocPush ==
    /\ Size(m_buffer) < MaxBufferLen
    /\ \E t \in RecordSamples : Push(t)
    /\ UNCHANGED <<pc, environment, appVars>>

AllocClear ==
    /\ Clear
    /\ UNCHANGED <<pc, environment, appVars>>

AllocGetAlignment ==
    /\ GetAlignment
    /\ UNCHANGED <<pc, environment, appVars>>

AllocNext == AllocPush \/ AllocClear \/ AllocGetAlignment

AllocSpec == AllocInit /\ [][AllocNext]_vars

----------------------------------------------------------------------------
(* Spawning alone: any configured maximum, any order of Space events and    *)
(* Clear Nodes presses, every node at one position with the one mesh.       *)

\* Values of Glitter::Config::MAX_NODES: none spawnable, below 20, 20, and two
\* with more than one node per press, one of them no multiple of it.
MaxNodesSamples == {0, 19, 20, 45, 50}

SpawnInit ==
    /\ pc = "Spawn"
    /\ deviceAlignment \in DeviceAlignments
    /\ maxNodes \in MaxNodesSamples
    /\ lastKey = NoKey
    /\ runLog = NoRun
    /\ LoadLocalsIdle
    /\ ExtractionIdle
    /\ AllocatorInit
    /\ shouldClose = FALSE
    /\ m_nodes = << >>
    /\ \E vertices \in VertexSamples : m_meshes = <<LoadedMesh(vertices)>>
    /\ m_frustumCulling = TRUE
    /\ FrameLocalsIdle

\* case GLFW_KEY_SPACE of the key callback.
SpawnKeySpace ==
    /\ \E action \in KeyActions, position \in PositionSamples :
          LET nodesPerPress == IF action = "GLFW_RELEASE" THEN NodesPerPress(Len(m_nodes))
                                                          ELSE 0
          IN  /\ position = <<45 * One, 0, 0>>
              /\ m_nodes' = m_nodes \o [i \in 1..nodesPerPress |-> SpawnNode(position, 0)]
              /\ lastKey' = [key |-> "GLFW_KEY_SPACE", action |-> action,
                             sizeBefore |-> Len(m_nodes)]
    /\ UNCHANGED <<pc, deviceAlignment, maxNodes, runLog, loadLocals, extraction, allocVars, shouldClose, m_meshes,
                   m_frustumCulling, frameLocals>>

\* The Clear Nodes button of the debug window.
SpawnClearNodes ==
    /\ m_nodes' = << >>
    /\ lastKey' = [key |-> "Clear Nodes", action |-> "none", sizeBefore |-> Len(m_nodes)]
    /\ UNCHANGED <<pc, deviceAlignment, maxNodes, runLog, loadLocals, extraction, allocVars, shouldClose, m_meshes,
                   m_frustumCulling, frameLocals>>

SpawnNext == SpawnKeySpace \/ SpawnClearNodes

SpawnSpec == SpawnInit /\ [][SpawnNext]_vars

----------------------------------------------------------------------------
(* The mesh loading loop alone: any short list of vertex positions.         *)

\* Most vertices the loading-only specification reads.
MaxVertices == 2

\* Values of a coordinate of a vertex: two on each side of the origin.
CoordinateSamples == {-(2 * One), -One, One, 2 * One}

VertexPositions == {<<x, y, z>> : x \in CoordinateSamples, y \in CoordinateSamples,
                                  z \in CoordinateSamples}

\* What the position accessor of the file can hold.
AccessorSamples == UNION {[1..n -> VertexPositions] : n \in 0..MaxVertices}

LoadInit ==
    /\ pc = "Load"
    /\ deviceAlignment \in DeviceAlignments
    /\ maxNodes = MAX_NODES
    /\ lastKey = NoKey
    /\ runLog = NoRun
    /\ positionAccessor \in AccessorSamples
    /\ vertexIdx = 0
    /\ gltfMesh = [m_aabb |-> AabbZero]
    /\ ExtractionIdle
    /\ AllocatorInit
    /\ shouldClose = FALSE
    /\ m_nodes = << >>
    /\ m_meshes = << >>
    /\ m_frustumCulling = TRUE
    /\ FrameLocalsIdle

\* One turn of the vertex loop: read the position, fold it into gltfMesh.m_aabb.
LoadVertex ==
    /\ pc = "Load"
    /\ vertexIdx < Len(positionAccessor)
    /\ gltfMesh' = [m_aabb |-> AabbAdd(gltfMesh.m_aabb, positionAccessor[vertexIdx + 1])]
    /\ vertexIdx' = vertexIdx + 1
    /\ UNCHANGED <<pc, deviceAlignment, maxNodes, runLog, lastKey, positionAccessor, extraction,
                   allocVars, appVars>>

\* After the loop: glitterMesh.m_aabb = parsedMeshes[0].m_aabb and the emplace_back.
LoadEmplace ==
    /\ pc = "Load"
    /\ vertexIdx = Len(positionAccessor)
    /\ m_meshes' = Append(m_meshes, [m_primitives |-> 1, m_aabb |-> gltfMesh.m_aabb])
    /\ pc' = "Loaded"
    /\ UNCHANGED <<environment, allocVars, shouldClose, m_nodes, m_frustumCulling,
                   frameLocals>>

LoadNext == LoadVertex \/ LoadEmplace

LoadSpec == LoadInit /\ [][LoadNext]_vars

----------------------------------------------------------------------------
(* The plane extraction alone: any matrix built from a few columns.         *)

\* Most extractions the extraction-only specification makes from one matrix.
MaxExtractions == 2

\* Columns of projection * view: a unit column, and three with four different
\* entries of either sign.
ColumnSamples == { <<One, 0, 0, 0>>, <<0, One, -One, 2 * One>>, <<3, 5, 7, 11>>,
                   <<-One, One \div 2, 0, One>> }

MatrixSamples == VPSamples \cup [1..4 -> ColumnSamples]

FrustumInit ==
    /\ pc = "Frustum"
    /\ deviceAlignment \in DeviceAlignments
    /\ maxNodes = MAX_NODES
    /\ lastKey = NoKey
    /\ runLog = NoRun
    /\ LoadLocalsIdle
    /\ vpMatrix \in MatrixSamples
    /\ extracted = << >>
    /\ AllocatorInit
    /\ shouldClose = FALSE
    /\ m_nodes = << >>
    /\ m_meshes = << >>
    /\ m_frustumCulling = TRUE
    /\ FrameLocalsIdle

\* The block of Render that fills frustumPlanes from vp.
FrustumExtract ==
    /\ pc = "Frustum"
    /\ Len(extracted) < MaxExtractions
    /\ frustumPlanes' = ExtractFrustum(vpMatrix)
    /\ extracted' = Append(extracted, frustumPlanes')
    /\ UNCHANGED <<pc, deviceAlignment, maxNodes, runLog, lastKey, loadLocals, vpMatrix, allocVars,
                   shouldClose, m_nodes, m_meshes, m_frustumCulling, eyePos, packIdx,
                   numCulledNodes, lastCull, cullTested, opaqueNodes, transparentNodes, preSort,
                   drawIdx, frameLog>>

FrustumNext == FrustumExtract

FrustumSpec == FrustumInit /\ [][FrustumNext]_vars

----------------------------------------------------------------------------
(* The uniform buffer alone: its size from Prepare, the spawning, and the   *)
(* pushes and the upload of Render, for several alignments and maxima.      *)

\* Values of GL_UNIFORM_BUFFER_OFFSET_ALIGNMENT: no padding at all, the two of
\* the application, one that leaves 68 one byte past a multiple, and 256.
UboAlignments == {1, 16, 64, 67, 256}

\* Values of Glitter::Config::MAX_NODES: none spawnable, one node per press, two.
UboMaxNodesSamples == {0, 20, 40}

\* The size glNamedBufferData gives the uniform buffer in Prepare.
MainUboSize == SizeofCommonData + (SizeofPerDrawData + AlignmentNow) * maxNodes

UboInit ==
    /\ pc = "UboPrepare"
    /\ deviceAlignment \in UboAlignments
    /\ maxNodes \in UboMaxNodesSamples
    /\ lastKey = NoKey
    /\ runLog = NoRun
    /\ LoadLocalsIdle
    /\ ExtractionIdle
    /\ AllocatorInit
    /\ shouldClose = FALSE
    /\ m_nodes = << >>
    /\ \E vertices \in VertexSamples : m_meshes = <<LoadedMesh(vertices)>>
    /\ m_frustumCulling = TRUE
    /\ FrameLocalsIdle

\* Prepare: m_uboAllocator.GetAlignment() in the size of the uniform buffer.
UboPrepare ==
    /\ pc = "UboPrepare"
    /\ GetAlignment
    /\ pc' = "UboTick"
    /\ UNCHANGED <<environment, appVars>>

\* case GLFW_KEY_SPACE of the key callback, called by glfwPollEvents in Tick.
UboKeySpace ==
    /\ pc = "UboTick"
    /\ \E action \in KeyActions :
          LET nodesPerPress == IF action = "GLFW_RELEASE" THEN NodesPerPress(Len(m_nodes))
                                                          ELSE 0
          IN  /\ m_nodes' = m_nodes \o
                     [i \in 1..nodesPerPress |-> SpawnNode(<<45 * One, 0, 0>>, 0)]
              /\ lastKey' = [key |-> "GLFW_KEY_SPACE", action |-> action,
                             sizeBefore |-> Len(m_nodes)]
    /\ UNCHANGED <<pc, deviceAlignment, maxNodes, runLog, loadLocals, extraction, allocVars,
                   shouldClose, m_meshes, m_frustumCulling, frameLocals>>

\* The animation loop of Tick, all nodes at one sample of the clock, and
\* m_uboAllocator.Clear() at the top of Render.
UboTickClear ==
    /\ pc = "UboTick"
    /\ \E cosT \in {0, One} :
          m_nodes' = [i \in 1..Len(m_nodes) |->
                         [m_nodes[i] EXCEPT !.m_opacity = TickOpacity(m_nodes[i], cosT)]]
    /\ Clear
    /\ frameLog' = << >>
    /\ pc' = "UboPushCommon"
    /\ UNCHANGED <<environment, shouldClose, m_meshes, m_frustumCulling, eyePos,
                   frustumPlanes, packIdx, numCulledNodes, lastCull, cullTested, opaqueNodes,
                   transparentNodes, preSort, drawIdx>>

\* m_uboAllocator.Push(commonData)
UboPushCommon ==
    /\ pc = "UboPushCommon"
    /\ Push(ObjectBytes(1, SizeofCommonData))
    /\ packIdx' = 1
    /\ pc' = "UboPack"
    /\ UNCHANGED <<environment, shouldClose, m_nodes, m_meshes, m_frustumCulling, eyePos,
                   frustumPlanes, numCulledNodes, lastCull, cullTested, opaqueNodes,
                   transparentNodes, preSort, drawIdx, frameLog>>

\* One turn of the packing loop without its cull test: the skip at opacity
\* zero, else node.m_uboOffset = m_uboAllocator.Push(shaderData).
UboPackNode ==
    /\ pc = "UboPack"
    /\ packIdx <= Len(m_nodes)
    /\ IF SkipsNode(m_nodes[packIdx])
       THEN UNCHANGED <<allocVars, m_nodes>>
       ELSE /\ Push(ObjectBytes(1 + packIdx, SizeofPerDrawData))
            /\ m_nodes' = [m_nodes EXCEPT ![packIdx].m_uboOffset =
                               UboOffsetStored(m_nodes[packIdx], lastCall'.ret)]
    /\ packIdx' = packIdx + 1
    /\ UNCHANGED <<pc, environment, shouldClose, m_meshes, m_frustumCulling, eyePos,
                   frustumPlanes, numCulledNodes, lastCull, cullTested, opaqueNodes,
                   transparentNodes, preSort, drawIdx, frameLog>>

\* glNamedBufferSubData(m_mainUBO, 0, Size(), Data()), then on to the next Tick.
UboUpload ==
    /\ pc = "UboPack"
    /\ packIdx > Len(m_nodes)
    /\ frameLog' = << LogEntry("Upload", "", 0, 0, UploadLength(m_buffer), << >>) >>
    /\ packIdx' = 0
    /\ pc' = "UboTick"
    /\ UNCHANGED <<environment, allocVars, shouldClose, m_nodes, m_meshes,
                   m_frustumCulling, eyePos, frustumPlanes, numCulledNodes, lastCull, cullTested,
                   opaqueNodes, transparentNodes, preSort, drawIdx>>

UboNext ==
    \/ UboPrepare
    \/ UboKeySpace
    \/ UboTickClear
    \/ UboPushCommon
    \/ UboPackNode
    \/ UboUpload

UboSpec == UboInit /\ [][UboNext]_vars

----------------------------------------------------------------------------
(* Properties. *)

\* The Push entries of the frame log.
Pushes == SelectSeq(frameLog, LAMBDA e : e.op = "Push")

\* The Draw entries of the frame log.
Draws == SelectSeq(frameLog, LAMBDA e : e.op = "Draw")

C2_SizeAndOffsetsAligned ==
    m_initializedAlignment =>
        /\ m_alignment >= 1
        /\ Size(m_buffer) % m_alignment = 0
        /\ lastCall.op = "Push" => lastCall.ret % m_alignment = 0

\* C2 witness: a record whose size is no multiple of the alignment, pushed at an
\* offset that is not 0.
C2_Witness ==
    /\ lastCall.op = "Push"
    /\ m_alignment > 1
    /\ Len(lastCall.arg) % m_alignment # 0
    /\ lastCall.ret > 0

\* C3: Clear leaves Size() = 0; in a frame the first Push is the CommonData
\* record, it lies at offset 0, and every PerDrawData record lies after it.
C3_CommonDataAtOffsetZero ==
    /\ lastCall.op = "Clear" => Size(m_buffer) = 0
    /\ Pushes # << >> => Pushes[1].kind = "CommonData" /\ Pushes[1].offset = 0
    /\ \A k \in 2..Len(Pushes) :
          /\ Pushes[k].kind = "PerDrawData"
          /\ Pushes[k].offset >= Pushes[1].offset + SizeofCommonData

\* C3 witness: a frame whose Clear found the records of the frame before and
\* whose packing loop has pushed a PerDrawData record.
C3_Witness ==
    /\ frameLog # << >>
    /\ frameLog[1].op = "Clear"
    /\ frameLog[1].size > 0
    /\ Len(Pushes) >= 2

\* a*x + b*y + c*z + d of a plane at a point.
PlaneValue(plane, point) ==
    FMul(plane.a, point[1]) + FMul(plane.b, point[2]) + FMul(plane.c, point[3]) + plane.d

\* Whether some corner has a strictly positive value on all six planes.
SomeCornerStrictlyInside(corners, planes) ==
    \E i \in 1..8 : \A p \in 1..6 : PlaneValue(planes[p], corners[i]) > 0

\* The nodes the packing loop of this frame has already handled.
Handled == IF pc = "Pack" THEN 1..(packIdx - 1) ELSE {}

\* C4: with frustum culling enabled, a node of nonzero opacity is marked culled
\* exactly when none of the 8 transformed corners of its AABB has a strictly
\* positive value on all six planes; a corner on a plane is not inside.
C4_CulledIffNoCornerInside ==
    \A i \in Handled :
        (m_frustumCulling /\ m_nodes[i].m_opacity # 0) =>
            m_nodes[i].m_culled =
                ~SomeCornerStrictlyInside(
                    WorldCorners(m_nodes[i], m_meshes[m_nodes[i].m_meshID + 1].m_aabb),
                    frustumPlanes)

\* C4 witness: a node marked culled although one of its corners lies exactly on
\* one plane and strictly inside the other five.
C4_Witness ==
    \E i \in Handled :
        /\ m_frustumCulling
        /\ m_nodes[i].m_opacity # 0
        /\ m_nodes[i].m_culled
        /\ lastCull.node = i
        /\ \E c \in 1..8, q \in 1..6 :
              /\ PlaneValue(frustumPlanes[q], lastCull.corners[c]) = 0
              /\ \A p \in (1..6) \ {q} : PlaneValue(frustumPlanes[p], lastCull.corners[c]) > 0

\* scale * local + position, per component.
ScaleThenTranslate(scale, position, local) ==
    [k \in 1..3 |-> FMul(scale[k], local[k]) + position[k]]

\* C5 (as claimed): every corner the cull test uses is scale * local + position,
\* and the model matrix of every per-draw record maps a point the same way.
C5_ScaleThenTranslate ==
    /\ \A i \in Handled :
          lastCull.node = i =>
              \A c \in 1..8 :
                  lastCull.corners[c] =
                      ScaleThenTranslate(m_nodes[i].m_scale, m_nodes[i].m_position,
                          AabbCorners(m_meshes[m_nodes[i].m_meshID + 1].m_aabb)[c])
    /\ \A i \in Handled :
          \A k \in 1..Len(Pushes) :
              Pushes[k].node = i =>
                  TransformPoint(Pushes[k].item.m_model, <<One, One, One>>) =
                      ScaleThenTranslate(m_nodes[i].m_scale, m_nodes[i].m_position,
                                         <<One, One, One>>)

\* The number of places of a sequence that hold x.
Count(seq, x) == Cardinality({k \in 1..Len(seq) : seq[k] = x})

\* Whether the partition of this frame passed over m_nodes[i] as culled.
SkippedAsCulled(i) == m_frustumCulling /\ m_nodes[i].m_culled

\* The nodes of m_nodes that are not passed over and whose opacity is in set.
Unskipped(set) == {i \in 1..Len(m_nodes) : ~SkippedAsCulled(i) /\ m_nodes[i].m_opacity \in set}

\* C6: after the partition, a node that was not skipped as culled is in the
\* opaque bucket alone when its opacity is 1.0 and in the transparent bucket alone
\* when its opacity is strictly between 0 and 1; no node is in both buckets and no
\* bucket holds an opacity outside (0, 1].
C6_PartitionByOpacity ==
    pc = "Sort" =>
        /\ \A i \in Unskipped({One}) :
              Count(opaqueNodes, m_nodes[i]) >= 1 /\ Count(transparentNodes, m_nodes[i]) = 0
        /\ \A i \in Unskipped(1..(One - 1)) :
              Count(transparentNodes, m_nodes[i]) >= 1 /\ Count(opaqueNodes, m_nodes[i]) = 0
        /\ Len(opaqueNodes) = Cardinality(Unskipped({One}))
        /\ Len(transparentNodes) = Cardinality(Unskipped(1..(One - 1)))
        /\ \A k \in 1..Len(opaqueNodes) : Count(transparentNodes, opaqueNodes[k]) = 0
        /\ \A k \in 1..Len(opaqueNodes) :
              opaqueNodes[k].m_opacity > 0 /\ opaqueNodes[k].m_opacity <= One
        /\ \A k \in 1..Len(transparentNodes) :
              transparentNodes[k].m_opacity > 0 /\ transparentNodes[k].m_opacity <= One

\* C6 witness: a partition that filled both buckets.
C6_Witness ==
    /\ pc = "Sort"
    /\ opaqueNodes # << >>
    /\ transparentNodes # << >>

\* Whether b holds the elements of a, each as often as a does.
IsPermutation(a, b) ==
    /\ Len(a) = Len(b)
    /\ \A k \in 1..Len(a) : Count(a, a[k]) = Count(b, a[k])

\* C7: after the sorts each bucket is a permutation of what the partition put in
\* it, the opaque one in non-decreasing and the transparent one in non-increasing
\* order of the distance from the eye to the node position.
C7_BucketsSortedByDistance ==
    pc = "Draw" =>
        /\ IsPermutation(preSort.opaque, opaqueNodes)
        /\ IsPermutation(preSort.transparent, transparentNodes)
        /\ \A i, j \in 1..Len(opaqueNodes) :
              i < j => Distance(eyePos, opaqueNodes[i].m_position)
                         <= Distance(eyePos, opaqueNodes[j].m_position)
        /\ \A i, j \in 1..Len(transparentNodes) :
              i < j => Distance(eyePos, transparentNodes[i].m_position)
                         >= Distance(eyePos, transparentNodes[j].m_position)

\* C7 witness: an opaque bucket the sort had to reorder.
C7_Witness ==
    /\ pc = "Draw"
    /\ Len(opaqueNodes) >= 2
    /\ opaqueNodes # preSort.opaque
    /\ Distance(eyePos, opaqueNodes[1].m_position) < Distance(eyePos, opaqueNodes[2].m_position)

RECURSIVE ExpectedDraws(_, _)
\* The draws of a bucket in its order: one per primitive of each node's mesh.
ExpectedDraws(bucket, name) ==
    IF bucket = << >> THEN << >>
    ELSE [k \in 1..m_meshes[Head(bucket).m_meshID + 1].m_primitives |->
             [kind |-> name, item |-> Head(bucket)]]
         \o ExpectedDraws(Tail(bucket), name)

\* Whether a is the beginning of b.
IsPrefix(a, b) == Len(a) <= Len(b) /\ a = SubSeq(b, 1, Len(a))

\* C8: in a frame no draw of a transparent node precedes a draw of an opaque
\* node, and the draws follow the sorted order of the opaque bucket and then of
\* the transparent bucket; at the end of the frame every node of both was drawn.
C8_OpaqueDrawnBeforeTransparent ==
    (pc = "Draw" /\ m_meshes # << >>) =>
        LET issued   == [k \in 1..Len(Draws) |-> [kind |-> Draws[k].kind, item |-> Draws[k].item]]
            expected == ExpectedDraws(opaqueNodes, "opaque")
                            \o ExpectedDraws(transparentNodes, "transparent")
        IN  /\ \A i, j \in 1..Len(issued) :
                  i < j => ~(issued[i].kind = "transparent" /\ issued[j].kind = "opaque")
            /\ IsPrefix(issued, expected)
            /\ drawIdx > Len(opaqueNodes) + Len(transparentNodes) => issued = expected

\* C8 witness: the end of a frame that drew an opaque and a transparent node.
C8_Witness ==
    /\ pc = "Draw"
    /\ drawIdx > Len(opaqueNodes) + Len(transparentNodes)
    /\ \E i, j \in 1..Len(Draws) : Draws[i].kind = "opaque" /\ Draws[j].kind = "transparent"

\* The packing loop is about to handle a node of opacity 0.
AtZeroOpacityNode ==
    pc = "Pack" /\ packIdx <= Len(m_nodes) /\ m_nodes[packIdx].m_opacity = 0

\* C9: the packing loop passes a node of opacity 0 without a Push and without a
\* cull test, leaving its culled flag and its stored offset as they were; such a
\* node is in neither bucket and no draw is submitted for it.
C9_ZeroOpacityNodeUntouched ==
    /\ [][AtZeroOpacityNode =>
             /\ m_nodes' = m_nodes
             /\ m_buffer' = m_buffer
             /\ lastCall' = lastCall
             /\ lastCull' = lastCull
             /\ numCulledNodes' = numCulledNodes
             /\ frameLog' = frameLog]_vars
    /\ [](/\ \A k \in 1..Len(opaqueNodes) : opaqueNodes[k].m_opacity # 0
          /\ \A k \in 1..Len(transparentNodes) : transparentNodes[k].m_opacity # 0
          /\ \A k \in 1..Len(Draws) : Draws[k].item.m_opacity # 0
          /\ \A i \in Handled :
                m_nodes[i].m_opacity = 0 => \A k \in 1..Len(Pushes) : Pushes[k].node # i)

\* C9 witness: the loop has passed a node of opacity 0 that still carries the
\* culled flag and the offset of an earlier frame, and has packed another node.
C9_Witness ==
    /\ m_frustumCulling
    /\ \E i \in Handled :
          /\ m_nodes[i].m_opacity = 0
          /\ m_nodes[i].m_culled
          /\ m_nodes[i].m_uboOffset > 0
    /\ Len(Pushes) >= 2

\* The number of Push entries of the frame for m_nodes[i].
PushesOf(i) == Cardinality({k \in 1..Len(Pushes) : Pushes[k].node = i})

\* C10 (as claimed): in a frame the shared record is pushed once, a node that is
\* neither of opacity 0 nor culled by this frame's test gets one per-draw record,
\* and a node the test culls gets none.
C10_OneRecordPerSurvivingNode ==
    pc = "Pack" =>
        /\ Cardinality({k \in 1..Len(Pushes) : Pushes[k].kind = "CommonData"}) = 1
        /\ \A i \in Handled :
              PushesOf(i) = IF m_nodes[i].m_opacity # 0 /\ ~(m_frustumCulling /\ m_nodes[i].m_culled)
                            THEN 1 ELSE 0

\* The BindCommon entries of the frame log.
CommonBinds == SelectSeq(frameLog, LAMBDA e : e.op = "BindCommon")

\* Whether Push entry p of this frame is the PerDrawData of the node that draw
\* entry d draws, and d binds the offset that Push returned.
BindsPushOf(d, p) ==
    /\ p.kind = "PerDrawData"
    /\ p.node \in 1..Len(m_nodes)
    /\ m_nodes[p.node] = d.item
    /\ p.item.m_opacity = d.item.m_opacity
    /\ d.offset = p.offset

\* C11: every draw of a frame binds, as its per-draw range, the offset a Push of
\* the same frame returned for the PerDrawData of the node it draws, and binds
\* the shared range at the offset the frame's CommonData Push returned, 0.
C11_DrawBindsOffsetOfSameFrame ==
    /\ \A k \in 1..Len(Draws) : \E j \in 1..Len(Pushes) : BindsPushOf(Draws[k], Pushes[j])
    /\ Len(CommonBinds) = Len(Draws)
    /\ \A k \in 1..Len(CommonBinds) :
          /\ CommonBinds[k].offset = 0
          /\ CommonBinds[k].offset = Pushes[1].offset
          /\ Pushes[1].kind = "CommonData"

\* C11 witness: the end of a frame whose draw binds an offset that another node,
\* now of opacity 0, still carries from an earlier frame.
C11_Witness ==
    /\ pc = "Draw"
    /\ drawIdx > Len(opaqueNodes) + Len(transparentNodes)
    /\ Draws # << >>
    /\ \E i \in 1..Len(m_nodes) :
          /\ m_nodes[i].m_opacity = 0
          /\ m_nodes[i].m_uboOffset = Draws[1].offset
          /\ m_nodes[i].m_uboOffset > 0

\* The number of places of the two buckets that hold node.
InBuckets(node) == Count(opaqueNodes, node) + Count(transparentNodes, node)

\* C12: with frustum culling disabled the packing loop runs no cull test and
\* writes no culled flag, and the partition puts every node of nonzero opacity
\* in a bucket, whatever its culled flag holds.
C12_CullingDisabledSkipsTest ==
    /\ [][(pc = "Pack" /\ ~m_frustumCulling) =>
             /\ lastCull' = lastCull
             /\ numCulledNodes' = numCulledNodes
             /\ \A i \in 1..Len(m_nodes') : m_nodes'[i].m_culled = m_nodes[i].m_culled]_vars
    /\ []((pc = "Sort" /\ ~m_frustumCulling) =>
             /\ \A i \in 1..Len(m_nodes) :
                   m_nodes[i].m_opacity # 0 => InBuckets(m_nodes[i]) >= 1
             /\ Len(opaqueNodes) + Len(transparentNodes) =
                   Cardinality({i \in 1..Len(m_nodes) : m_nodes[i].m_opacity # 0}))

\* C12 witness: a frame that packed a node without any cull test and whose
\* partition, with culling disabled, put a node with the culled flag set in a bucket.
C12_Witness ==
    /\ pc = "Sort"
    /\ ~m_frustumCulling
    /\ lastCull = NoCull
    /\ Len(Pushes) >= 2
    /\ \E i \in 1..Len(m_nodes) :
          m_nodes[i].m_culled /\ m_nodes[i].m_opacity # 0 /\ InBuckets(m_nodes[i]) >= 1

\* C13: the node count never exceeds MAX_NODES; a Space release adds
\* min(MAX_NODES / 20, MAX_NODES - size) nodes and none when size >= MAX_NODES,
\* a Space press or repeat adds none.
C13_NodeCountNeverExceedsMax ==
    /\ Len(m_nodes) <= maxNodes
    /\ lastKey.key = "GLFW_KEY_SPACE" =>
          Len(m_nodes) - lastKey.sizeBefore =
              IF lastKey.action # "GLFW_RELEASE" \/ lastKey.sizeBefore >= maxNodes THEN 0
              ELSE Min(maxNodes \div 20, maxNodes - lastKey.sizeBefore)

\* C13 witness: a Space release that could add only part of MAX_NODES / 20 nodes
\* and filled the scene.
C13_Witness ==
    /\ lastKey.key = "GLFW_KEY_SPACE"
    /\ lastKey.action = "GLFW_RELEASE"
    /\ Len(m_nodes) = maxNodes
    /\ Len(m_nodes) - lastKey.sizeBefore > 0
    /\ Len(m_nodes) - lastKey.sizeBefore < maxNodes \div 20

\* C14: over the life of a LinearAllocator the device alignment is queried
\* once, by the first Push or GetAlignment; no later call queries it again and
\* Clear leaves the cached alignment alone.
C14_AlignmentQueriedOnce ==
    /\ [](/\ alignmentQueries = (IF m_initializedAlignment THEN 1 ELSE 0)
          /\ m_initializedAlignment => m_alignment = deviceAlignment)
    /\ [][/\ lastCall'.op \in {"Push", "GetAlignment"} => alignmentQueries' = 1
          /\ lastCall'.op = "Clear" =>
                /\ alignmentQueries' = alignmentQueries
                /\ m_initializedAlignment' = m_initializedAlignment
                /\ m_alignment' = m_alignment
          /\ alignmentQueries = 1 => alignmentQueries' = 1 /\ m_alignment' = m_alignment]_vars

\* C14 witness: a Clear of a filled buffer, after which the alignment is still
\* cached and the query count still 1.
C14_Witness ==
    /\ lastCall.op = "Clear"
    /\ lastCall.sizeBefore > 0
    /\ m_initializedAlignment
    /\ alignmentQueries = 1
    /\ m_alignment > 1

\* The length of the buffer after the record of the last Push, before its padding.
NewLength == lastCall.sizeBefore + Len(lastCall.arg)

\* The number of bytes the last Push appended after the record.
PaddingAppended == Size(m_buffer) - NewLength

\* C15: the bytes Push appends after the record are zero and their number is
\* (alignment - (newLength % alignment)) % alignment: 0 when newLength is
\* aligned, otherwise the least number that aligns the length, below the alignment.
C15_PaddingFormula ==
    lastCall.op = "Push" =>
        /\ PaddingAppended = (m_alignment - (NewLength % m_alignment)) % m_alignment
        /\ NewLength % m_alignment = 0 => PaddingAppended = 0
        /\ PaddingAppended >= 0 /\ PaddingAppended < m_alignment
        /\ (NewLength + PaddingAppended) % m_alignment = 0
        /\ \A q \in 0..(PaddingAppended - 1) : (NewLength + q) % m_alignment # 0
        /\ \A i \in (NewLength + 1)..Size(m_buffer) : m_buffer[i] = 0

\* C15 witness: a Push onto a buffer that was not empty, padded by the most an
\* alignment above 2 allows.
C15_Witness ==
    /\ lastCall.op = "Push"
    /\ lastCall.sizeBefore > 0
    /\ m_alignment > 2
    /\ PaddingAppended = m_alignment - 1

\* The places of the frame log that hold a call of kind op.
PlacesOf(op) == {k \in 1..Len(frameLog) : frameLog[k].op = op}

\* C16: in a frame the buffer is uploaded once, after the last Push and before
\* the first draw, and the length uploaded is Size() at that moment.
C16_UploadOnceBetweenPackAndDraw ==
    /\ Cardinality(PlacesOf("Upload")) <= 1
    /\ pc \in {"Partition", "Sort", "Draw"} => Cardinality(PlacesOf("Upload")) = 1
    /\ \A u \in PlacesOf("Upload") :
          /\ \A k \in PlacesOf("Push") : k < u
          /\ \A k \in PlacesOf("Draw") \cup PlacesOf("BindCommon") : u < k
          /\ frameLog[u].size = Size(m_buffer)
          /\ frameLog[u].size =
                Pushes[Len(Pushes)].offset + Pushes[Len(Pushes)].size
                    + PaddingRequired(Pushes[Len(Pushes)].offset + Pushes[Len(Pushes)].size,
                                      m_alignment)
    /\ PlacesOf("Draw") # {} => PlacesOf("Upload") # {}

\* C16 witness: the end of a frame that packed two nodes, uploaded, and drew.
C16_Witness ==
    /\ pc = "Draw"
    /\ drawIdx > Len(opaqueNodes) + Len(transparentNodes)
    /\ Len(Pushes) >= 3
    /\ Draws # << >>
    /\ \E u \in PlacesOf("Upload") : frameLog[u].size > SizeofCommonData + SizeofPerDrawData

\* The position Run reaches when it leaves each position of a frame.
PhaseAfter ==
    [Tick |-> "RenderClear", RenderClear |-> "RenderCamera",
     RenderCamera |-> "RenderPushCommon", RenderPushCommon |-> "Pack", Pack |-> "Upload",
     Upload |-> "Partition", Partition |-> "Sort", Sort |-> "Draw", Draw |-> "Loop"]

ClaimedPhaseRank ==
    [Clear |-> 1, Camera |-> 2, Frustum |-> 3, Push |-> 4, DebugUI |-> 4, Partition |-> 5,
     Sort |-> 6, Upload |-> 7, BindCommon |-> 8, Draw |-> 8]

\* The phases of a frame with the upload before the partition.
PhaseRank ==
    [Clear |-> 1, Camera |-> 2, Frustum |-> 3, Push |-> 4, DebugUI |-> 5, Upload |-> 6,
     Partition |-> 7, Sort |-> 8, BindCommon |-> 9, Draw |-> 9]

\* Whether the calls of the frame log follow one another by non-decreasing rank,
\* none but Push, BindCommon and Draw occurring twice.
LogFollows(rank) ==
    /\ \A i, j \in 1..Len(frameLog) :
          i < j => rank[frameLog[i].op] <= rank[frameLog[j].op]
    /\ \A op \in (DOMAIN rank) \ {"Push", "BindCommon", "Draw"} :
          Cardinality(PlacesOf(op)) <= 1

\* Whether the transparent draws of the frame log all come after the opaque ones.
OpaqueThenTransparent ==
    \A i, j \in PlacesOf("Draw") :
        i < j => ~(frameLog[i].kind = "transparent" /\ frameLog[j].kind = "opaque")

----------------------------------------------------------------------------
(* C19 *)

\* Component k of the vertex positions the loop has folded in.
FoldedComponents(k) == {positionAccessor[i][k] : i \in 1..vertexIdx}

Least(values) == CHOOSE v \in values : \A w \in values : v <= w

Greatest(values) == CHOOSE v \in values : \A w \in values : w <= v

\* C19: once a mesh is loaded from at least one vertex, every component of its
\* local AABB min corner is the least and every component of its max corner the
\* greatest of that component over the vertex positions folded in, and so
\* min <= max in every component; this for every list of positions, those on
\* one side of the origin included.
C19_AabbIsMinMaxOfVertices ==
    pc = "Loaded" /\ vertexIdx > 0 =>
        \A k \in 1..3 :
            LET aabb == m_meshes[Len(m_meshes)].m_aabb
            IN  /\ aabb.m_localMin[k] = Least(FoldedComponents(k))
                /\ aabb.m_localMax[k] = Greatest(FoldedComponents(k))
                /\ aabb.m_localMin[k] <= aabb.m_localMax[k]

----------------------------------------------------------------------------
(* C20 *)

\* Row r of a glm matrix, by column.
RowOf(m, r) == [c \in 0..3 |-> At(m, c, r)]

\* row_w + sign * row of the matrix, with a, b, c, d from columns 0 to 3.
PlaneOfRows(m, r, sign) ==
    LET w == RowOf(m, 3)
        x == RowOf(m, r)
    IN  [a |-> w[0] + sign * x[0], b |-> w[1] + sign * x[1],
         c |-> w[2] + sign * x[2], d |-> w[3] + sign * x[3]]

ClaimedPlanes(m) ==
    << PlaneOfRows(m, 0, 1), PlaneOfRows(m, 0, -1),
       PlaneOfRows(m, 1, 1), PlaneOfRows(m, 1, -1),
       PlaneOfRows(m, 2, 1), PlaneOfRows(m, 2, -1) >>

\* C20: the planes extracted from a view-projection matrix are, in the order
\* left, right, bottom, top, near, far, row_w + row_x, row_w - row_x,
\* row_w + row_y, row_w - row_y, row_w + row_z, row_w - row_z of the matrix with
\* a, b, c, d from columns 0 to 3, and two extractions from the same matrix give
\* the same coefficients.
C20_PlanesAreRowSums ==
    /\ \A i \in 1..Len(extracted) : extracted[i] = ClaimedPlanes(vpMatrix)
    /\ \A i, j \in 1..Len(extracted) : extracted[i] = extracted[j]
    /\ extracted # << >> => frustumPlanes = extracted[Len(extracted)]

\* Two extractions from a matrix that differs from its transpose and gives six
\* different planes.
C20_Witness ==
    /\ Len(extracted) = 2
    /\ \E c, r \in 0..3 : At(vpMatrix, c, r) # At(vpMatrix, r, c)
    /\ \A p, q \in 1..6 : p # q => extracted[2][p] # extracted[2][q]

----------------------------------------------------------------------------
(* C21 *)

\* The lengths uploaded in this frame.
UploadedLengths == {frameLog[i].size : i \in PlacesOf("Upload")}

\* C21: in every frame, whatever the node count from 0 to MAX_NODES and whatever
\* the device alignment, the number of bytes uploaded is at most the size the
\* uniform buffer got in Prepare,
\* sizeof(CommonData) + (sizeof(PerDrawData) + alignment) * MAX_NODES.
C21_UploadFitsUniformBuffer ==
    \A length \in UploadedLengths : length <= MainUboSize

----------------------------------------------------------------------------
(* C22 *)

\* C22: whenever the partition passes over a node because its culled flag is
\* set, the cull test of the same frame wrote that flag; no node is dropped on a
\* flag an earlier frame computed, also when the checkbox of the debug window
\* switches frustum culling on between the packing loop and the partition.
\* Stated for the nodes the flag decides about, those of nonzero opacity (a node
\* of opacity zero is in no bucket whatever its flag).
C22_SkippedOnFlagOfSameFrame ==
    pc = "Sort" =>
        \A i \in 1..Len(m_nodes) :
            (SkippedAsCulled(i) /\ m_nodes[i].m_opacity # 0) => i \in cullTested

----------------------------------------------------------------------------
(* C23 *)

----------------------------------------------------------------------------
(* C24 *)

\* The nodes of the two buckets in the order they are drawn.
DrawnNodes == Bucket(PassOrder[1]) \o Bucket(PassOrder[2])

\* Whether the byte ranges [a, a + m) and [b, b + n) have no byte in common.
Disjoint(a, m, b, n) == a + m <= b \/ b + n <= a

\* The places of the frame log that hold the Push of a per-draw record.
PerDrawPushes == {k \in PlacesOf("Push") : frameLog[k].kind = "PerDrawData"}

\* C24: in every frame the ranges bound for drawing lie inside the uploaded
\* buffer and are pairwise disjoint: the shared range [0, sizeof(CommonData)) and
\* the range [offset, offset + sizeof(PerDrawData)) of every drawn node are within
\* [0, Size()), no two nodes packed in the frame have the same offset, and no
\* per-draw range overlaps the shared range.
C24_BoundRangesDisjointAndInside ==
    /\ \A j, k \in PerDrawPushes : j # k => frameLog[j].offset # frameLog[k].offset
    /\ \A k \in PlacesOf("BindCommon") \cup PlacesOf("Draw") :
          /\ frameLog[k].offset >= 0
          /\ \A u \in PlacesOf("Upload") :
                frameLog[k].offset + frameLog[k].size <= frameLog[u].size
          /\ frameLog[k].offset + frameLog[k].size <= Size(m_buffer)
    /\ \A k \in PlacesOf("Draw") :
          Disjoint(frameLog[k].offset, SizeofPerDrawData, CommonRangeOffset, SizeofCommonData)
    /\ pc = "Draw" =>
          /\ \A i, j \in 1..Len(DrawnNodes) :
                i # j => Disjoint(DrawnNodes[i].m_uboOffset, SizeofPerDrawData,
                                  DrawnNodes[j].m_uboOffset, SizeofPerDrawData)
          /\ \A i \in 1..Len(DrawnNodes) :
                /\ Disjoint(DrawnNodes[i].m_uboOffset, SizeofPerDrawData,
                            CommonRangeOffset, SizeofCommonData)
                /\ DrawnNodes[i].m_uboOffset + SizeofPerDrawData <= Size(m_buffer)

\* C24 witness: the end of a frame that drew two nodes, one in each pass, while
\* both carry offsets of this frame's pushes.
C24_Witness ==
    /\ pc = "Draw"
    /\ drawIdx > Len(DrawnNodes)
    /\ Len(opaqueNodes) = 1
    /\ Len(transparentNodes) = 1
    /\ Cardinality(PlacesOf("Draw")) = 2
    /\ Cardinality(PerDrawPushes) = 2

----------------------------------------------------------------------------
(* C25 *)

\* Whether Initialize or Prepare has returned a result other than Ok.
RunFailed == runLog.initialize \notin {"none", "Ok"} \/ runLog.prepare \notin {"none", "Ok"}

\* C25: when Initialize or Prepare returns a result other than Ok, Run runs no
\* Tick and no Render, calls Finish once and returns; on every path through Run,
\* failure or normal close, Finish is called exactly once and nothing runs after it.
C25_FinishOnceOnEveryPath ==
    /\ [](/\ runLog.finishCalls <= 1
          /\ pc = "Done" <=> runLog.finishCalls = 1
          /\ RunFailed => pc \in {"Finish", "Done"}
          /\ runLog.initialize \notin {"none", "Ok"} => runLog.prepare = "none")
    /\ [][/\ runLog.finishCalls = 0
          /\ RunFailed => (pc' = "Done" /\ runLog'.finishCalls = 1)
          /\ (pc = "Loop" /\ shouldClose) => pc' = "Finish"]_vars

\* C25 witness: Run has returned after a Prepare that failed once the mesh was
\* loaded and the uniform buffer sized.
C25_Witness ==
    /\ pc = "Done"
    /\ runLog.prepare = "FramebufferIncomplete"
    /\ runLog.finishCalls = 1
    /\ m_meshes # << >>

====
